---- MODULE Spec2Model ----
(***************************************************************************)
(* JackknifeAnalyzer<K, T>: a store of named datasets, each a mean and a   *)
(* series of jackknife-reduced samples, with one bin count N_bins shared   *)
(* by all of them.  Modelled from include/detail/JackknifeAnalyzer.tcc.    *)
(*                                                                         *)
(* Values of the arithmetic type T are exact fractions <<n, d>> in lowest  *)
(* terms with d > 0.  T_integral tells whether T is an integral type: its  *)
(* division then truncates toward zero, as C++ integer division does.  A   *)
(* floating T is modelled without rounding error.                          *)
(***************************************************************************)
EXTENDS Integers, Sequences, FiniteSets, TLC

VARIABLES
    T_integral,          \* template parameter T: TRUE for an integral type
    bin_size,            \* const std::size_t bin_size
    N_bins,              \* std::size_t N_bins, 0 = not yet set
    Xs_mu,               \* std::map<K, T>
    Xs_reduced_samples,  \* std::map<K, std::vector<T>>
    last,                \* the last mutating call: [op, key, outcome]
    calls,               \* number of mutating calls made so far
    F_calls,             \* the arguments of every call of F made by the last call
    removed              \* <<"now", k>>: the last call removed the stored key k;
                         \* <<"before", k>>: the call before the last did

vars == <<T_integral, bin_size, N_bins, Xs_mu, Xs_reduced_samples, last, calls,
          F_calls, removed>>

store == <<N_bins, Xs_mu, Xs_reduced_samples>>

----------------------------------------------------------------------------
(* Bounds of the model *)

MaxCalls == 3
MaxLen == 6
MaxBinSize == 2

Keys == {"A", "B", "C"}

\* bin_size 0 is left out: init_or_verify_N would divide by it
BinSizes == 1..MaxBinSize

\* raw series: the i-th sample is i, <<1, 2, ..., L>>
RawInputs == {[i \in 1..L |-> <<i, 1>>] : L \in 0..MaxLen}

\* directly supplied reduced samples, with their mean
ResampledInputs ==
    { [samples |-> s, mu |-> <<5, 1>>] :
        s \in {<< <<4, 1>> >>, << <<4, 1>>, <<6, 1>> >>,
               << <<3, 1>>, <<5, 1>>, <<-7, 1>> >>} }

Funcs == {"sum", "wsum"}
\* argument keys of add_function: none, one, or two different ones
ArgKeyLists ==
    {<<>>} \cup {<<k>> : k \in Keys}
           \cup {ks \in {<<k1, k2>> : k1 \in Keys, k2 \in Keys} : ks[1] # ks[2]}

None == <<>>

----------------------------------------------------------------------------
(* Arithmetic of T *)

Abs(x) == IF x < 0 THEN -x ELSE x

RECURSIVE GCD(_, _)
GCD(a, b) == IF b = 0 THEN a ELSE GCD(b, a % b)

\* the fraction n/d (d # 0) in lowest terms with a positive denominator
Rat(n, d) ==
    LET s == IF d < 0 THEN -1 ELSE 1
        g == GCD(Abs(n), Abs(d))
    IN  <<(s * n) \div g, (s * d) \div g>>

\* C++ integer division truncates toward zero
TruncDiv(a, b) ==
    LET q == Abs(a) \div Abs(b)
    IN  IF (a < 0) # (b < 0) THEN -q ELSE q

T_zero == <<0, 1>>
T_from_size(n) == <<n, 1>>                       \* static_cast<T>(std::size_t)
T_add(x, y) == Rat(x[1] * y[2] + y[1] * x[2], x[2] * y[2])
T_sub(x, y) == Rat(x[1] * y[2] - y[1] * x[2], x[2] * y[2])
T_mul(x, y) == Rat(x[1] * y[1], x[2] * y[2])
T_div(x, y) ==
    IF T_integral THEN <<TruncDiv(x[1], y[1]), 1>>
    ELSE Rat(x[1] * y[2], x[2] * y[1])

----------------------------------------------------------------------------
(* std::map *)

EmptyMap == <<>>
count(m, k) == IF k \in DOMAIN m THEN 1 ELSE 0
MapSet(m, k, v) == [x \in (DOMAIN m) \cup {k} |-> IF x = k THEN v ELSE m[x]]
erase(m, k) == [x \in (DOMAIN m) \ {k} |-> m[x]]

----------------------------------------------------------------------------
(* The user functions F handed to add_function *)

RECURSIVE F_sum(_, _)
F_sum(args, n) == IF n = 0 THEN T_zero ELSE T_add(F_sum(args, n - 1), args[n])

RECURSIVE F_wsum(_, _)
F_wsum(args, n) ==
    IF n = 0 THEN <<1, 1>>
    ELSE T_add(F_wsum(args, n - 1), T_mul(T_from_size(n), args[n]))

\* "sum": a1 + a2 + ...;  "wsum": 1 + 1*a1 + 2*a2 + ... (depends on the order)
F(f, args) == IF f = "sum" THEN F_sum(args, Len(args)) ELSE F_wsum(args, Len(args))

----------------------------------------------------------------------------
\* The store as the constructor leaves it.  The constructor that also takes
\* a dataset is this one followed by resample.
Init ==
    /\ T_integral \in BOOLEAN
    /\ bin_size \in BinSizes
    /\ N_bins = 0
    /\ Xs_mu = EmptyMap
    /\ Xs_reduced_samples = EmptyMap
    /\ last = [op |-> "construct", key |-> None, outcome |-> "ok"]
    /\ calls = 0
    /\ F_calls = <<>>
    /\ removed = None

\* both maps are asked for the key before a dataset is added
absent(Xkey) == count(Xs_reduced_samples, Xkey) = 0 /\ count(Xs_mu, Xkey) = 0

\* outcome: "ok", "noop" (the key existed: nothing done), or the exception thrown
Called(op, key, outcome) ==
    /\ last' = [op |-> op, key |-> key, outcome |-> outcome]
    /\ removed' = IF op = "remove"
                  THEN IF absent(key) THEN None ELSE <<"now", key>>
                  ELSE IF removed # None /\ removed[1] = "now"
                       THEN <<"before", removed[2]>>
                       ELSE None

\* init_or_verify_N with the bin count taken anew whenever the store is empty
init_or_verify_N_empty_store(Xsamples, binned) ==
    LET num_bins == Len(Xsamples) \div (IF binned THEN 1 ELSE bin_size)
    IN  IF N_bins = 0 \/ DOMAIN Xs_mu = {}
        THEN IF num_bins > 1
             THEN [thrown |-> FALSE, N |-> num_bins]
             ELSE [thrown |-> TRUE, N |-> N_bins]
        ELSE IF num_bins # N_bins
             THEN [thrown |-> TRUE, N |-> N_bins]
             ELSE [thrown |-> FALSE, N |-> N_bins]

\* init_or_verify_N with the member assigned before the comparison
init_or_verify_N_assign_first(Xsamples, binned) ==
    LET num_bins == Len(Xsamples) \div (IF binned THEN 1 ELSE bin_size)
    IN  IF N_bins = 0
        THEN IF num_bins > 1
             THEN [thrown |-> FALSE, N |-> num_bins]
             ELSE [thrown |-> TRUE, N |-> N_bins]
        ELSE IF num_bins # N_bins
             THEN [thrown |-> TRUE, N |-> num_bins]
             ELSE [thrown |-> FALSE, N |-> N_bins]

\* init_or_verify_N refusing only a dataset with fewer bins than N_bins
init_or_verify_N_accepts_more(Xsamples, binned) ==
    LET num_bins == Len(Xsamples) \div (IF binned THEN 1 ELSE bin_size)
    IN  IF N_bins = 0
        THEN IF num_bins > 1
             THEN [thrown |-> FALSE, N |-> num_bins]
             ELSE [thrown |-> TRUE, N |-> N_bins]
        ELSE IF num_bins < N_bins
             THEN [thrown |-> TRUE, N |-> N_bins]
             ELSE [thrown |-> FALSE, N |-> N_bins]

\* init_or_verify_N refusing, once N_bins is set, only a larger bin count
init_or_verify_N_accepts_fewer(Xsamples, binned) ==
    LET num_bins == Len(Xsamples) \div (IF binned THEN 1 ELSE bin_size)
    IN  IF N_bins = 0
        THEN IF num_bins > 1
             THEN [thrown |-> FALSE, N |-> num_bins]
             ELSE [thrown |-> TRUE, N |-> N_bins]
        ELSE IF num_bins > N_bins
             THEN [thrown |-> TRUE, N |-> N_bins]
             ELSE [thrown |-> FALSE, N |-> N_bins]

\* init_or_verify_N: the bin count of the dataset, checked against N_bins or
\* taken as N_bins.  thrown: std::runtime_error; N: the member N_bins as the
\* call leaves it, whether it returns or throws.
init_or_verify_N(Xsamples, binned) ==
    LET num_bins == Len(Xsamples) \div (IF binned THEN 1 ELSE bin_size)
    IN  IF N_bins = 0
        THEN IF num_bins > 1
             THEN [thrown |-> FALSE, N |-> num_bins]
             ELSE [thrown |-> TRUE, N |-> N_bins]
        ELSE IF num_bins # N_bins
             THEN [thrown |-> TRUE, N |-> N_bins]
             ELSE [thrown |-> FALSE, N |-> N_bins]

\* add_resampled with the bin count verified before the key is looked up
add_resampled_verify_first(Xkey, Xjackknife_samples, mu_X) ==
    /\ calls < MaxCalls
    /\ calls' = calls + 1
    /\ F_calls' = <<>>
    /\ UNCHANGED <<T_integral, bin_size>>
    /\ LET v == init_or_verify_N(Xjackknife_samples, TRUE)
       IN  IF v.thrown
           THEN /\ N_bins' = v.N
                /\ UNCHANGED <<Xs_mu, Xs_reduced_samples>>
                /\ Called("add_resampled", Xkey, "runtime_error")
           ELSE IF absent(Xkey)
           THEN /\ N_bins' = v.N
                /\ Xs_reduced_samples' =
                       MapSet(Xs_reduced_samples, Xkey, Xjackknife_samples)
                /\ Xs_mu' = MapSet(Xs_mu, Xkey, mu_X)
                /\ Called("add_resampled", Xkey, "ok")
           ELSE /\ N_bins' = v.N
                /\ UNCHANGED <<Xs_mu, Xs_reduced_samples>>
                /\ Called("add_resampled", Xkey, "noop")

\* add_resampled counting bins as resample does, dividing by bin_size
add_resampled_unbinned(Xkey, Xjackknife_samples, mu_X) ==
    /\ calls < MaxCalls
    /\ calls' = calls + 1
    /\ F_calls' = <<>>
    /\ UNCHANGED <<T_integral, bin_size>>
    /\ IF absent(Xkey)
       THEN LET v == init_or_verify_N(Xjackknife_samples, FALSE)
            IN  IF v.thrown
                THEN /\ N_bins' = v.N
                     /\ UNCHANGED <<Xs_mu, Xs_reduced_samples>>
                     /\ Called("add_resampled", Xkey, "runtime_error")
                ELSE /\ N_bins' = v.N
                     /\ Xs_reduced_samples' =
                            MapSet(Xs_reduced_samples, Xkey, Xjackknife_samples)
                     /\ Xs_mu' = MapSet(Xs_mu, Xkey, mu_X)
                     /\ Called("add_resampled", Xkey, "ok")
       ELSE /\ UNCHANGED store
            /\ Called("add_resampled", Xkey, "noop")

add_resampled(Xkey, Xjackknife_samples, mu_X) ==
    /\ calls < MaxCalls
    /\ calls' = calls + 1
    /\ F_calls' = <<>>
    /\ UNCHANGED <<T_integral, bin_size>>
    /\ IF absent(Xkey)
       THEN LET v == init_or_verify_N(Xjackknife_samples, TRUE)
            IN  IF v.thrown
                THEN /\ N_bins' = v.N
                     /\ UNCHANGED <<Xs_mu, Xs_reduced_samples>>
                     /\ Called("add_resampled", Xkey, "runtime_error")
                ELSE /\ N_bins' = v.N
                     /\ Xs_reduced_samples' =
                            MapSet(Xs_reduced_samples, Xkey, Xjackknife_samples)
                     /\ Xs_mu' = MapSet(Xs_mu, Xkey, mu_X)
                     /\ Called("add_resampled", Xkey, "ok")
       ELSE /\ UNCHANGED store
            /\ Called("add_resampled", Xkey, "noop")

\* sum_samples: the samples added up front to back
RECURSIVE sum_samples(_, _)
sum_samples(Xsamples, n) ==
    IF n = 0 THEN T_zero ELSE T_add(sum_samples(Xsamples, n - 1), Xsamples[n])

\* the inner loop of resample: red_sample -= Xsamples[i] for i = from .. to-1
\* (i counts from 0 as in the code; the sequence is indexed from 1)
RECURSIVE red_sample(_, _, _, _)
red_sample(acc, Xsamples, i, to) ==
    IF i < to
    THEN red_sample(T_sub(acc, Xsamples[i + 1]), Xsamples, i + 1, to)
    ELSE acc

\* red_samples dividing by the number of all samples
red_samples_all_samples(Xsamples, N) ==
    [b1 \in 1..N |->
        T_div(red_sample(sum_samples(Xsamples, Len(Xsamples)), Xsamples,
                         (b1 - 1) * bin_size, b1 * bin_size),
              T_from_size(Len(Xsamples)))]

\* red_samples starting from the sum of the samples of the N bins alone
red_samples_binned_only(Xsamples, N) ==
    [b1 \in 1..N |->
        T_div(red_sample(sum_samples(Xsamples, N * bin_size), Xsamples,
                         (b1 - 1) * bin_size, b1 * bin_size),
              T_from_size(Len(Xsamples) - bin_size))]

\* the outer loop of resample over b = 0 .. N-1
red_samples(Xsamples, N) ==
    [b1 \in 1..N |->
        T_div(red_sample(sum_samples(Xsamples, Len(Xsamples)), Xsamples,
                         (b1 - 1) * bin_size, b1 * bin_size),
              T_from_size(Len(Xsamples) - bin_size))]

\* the indices i of the reads Xsamples[i] made by the loops of resample over
\* b = 0 .. N-1 and i = b * bin_size .. (b + 1) * bin_size - 1
read_indices(N) ==
    {i \in 0..(N * bin_size) :
        \E b \in 0..(N - 1) : b * bin_size <= i /\ i < (b + 1) * bin_size}

\* Xsamples[i] past the end and an integral division by zero are undefined
\* behaviour: the call may stop the program or store anything
resample_undefined(Xsamples, N) ==
    \/ \E i \in read_indices(N) : i >= Len(Xsamples)
    \/ T_integral /\ Len(Xsamples) - bin_size = 0

Garbage == {T_zero, <<1, 1>>}

resample(Xkey, Xsamples) ==
    /\ calls < MaxCalls
    /\ calls' = calls + 1
    /\ F_calls' = <<>>
    /\ UNCHANGED <<T_integral, bin_size>>
    /\ IF absent(Xkey)
       THEN LET v == init_or_verify_N(Xsamples, FALSE)
            IN  IF v.thrown
                THEN /\ N_bins' = v.N
                     /\ UNCHANGED <<Xs_mu, Xs_reduced_samples>>
                     /\ Called("resample", Xkey, "runtime_error")
                ELSE IF resample_undefined(Xsamples, v.N)
                THEN /\ N_bins' = v.N
                     /\ Xs_mu' \in {Xs_mu} \cup {MapSet(Xs_mu, Xkey, g) : g \in Garbage}
                     /\ Xs_reduced_samples' \in
                            {Xs_reduced_samples}
                            \cup {MapSet(Xs_reduced_samples, Xkey, [b1 \in 1..v.N |-> g]) :
                                     g \in Garbage}
                     /\ Called("resample", Xkey, "undefined")
                ELSE /\ N_bins' = v.N
                     /\ Xs_mu' = MapSet(Xs_mu, Xkey,
                            T_div(sum_samples(Xsamples, Len(Xsamples)),
                                  T_from_size(Len(Xsamples))))
                     /\ Xs_reduced_samples' =
                            MapSet(Xs_reduced_samples, Xkey, red_samples(Xsamples, v.N))
                     /\ Called("resample", Xkey, "ok")
       ELSE /\ UNCHANGED store
            /\ Called("resample", Xkey, "noop")

\* args_mu collecting the means back to front
args_mu_reversed(F_arg_keys) ==
    [j \in 1..Len(F_arg_keys) |-> Xs_mu[F_arg_keys[Len(F_arg_keys) + 1 - j]]]

\* args_mu: the means of the argument keys, in the order given
args_mu(F_arg_keys) == [j \in 1..Len(F_arg_keys) |-> Xs_mu[F_arg_keys[j]]]

\* args_red_samples: the i-th reduced sample (i from 0) of every argument key
args_red_samples(F_arg_keys, i) ==
    [j \in 1..Len(F_arg_keys) |-> Xs_reduced_samples[F_arg_keys[j]][i + 1]]

\* std::map::at and std::vector::at throw std::out_of_range
mu_at_throws(F_arg_keys) ==
    \E j \in 1..Len(F_arg_keys) : count(Xs_mu, F_arg_keys[j]) = 0

red_at_throws(F_arg_keys, i) ==
    \E j \in 1..Len(F_arg_keys) :
        \/ count(Xs_reduced_samples, F_arg_keys[j]) = 0
        \/ i >= Len(Xs_reduced_samples[F_arg_keys[j]])

\* the loop over i = 0 .. N_bins-1 of add_function, from index i on;
\* thrown: an at() threw std::out_of_range and the loop was left
RECURSIVE F_jackknife_samples(_, _, _, _)
F_jackknife_samples(f, F_arg_keys, i, acc) ==
    IF i < N_bins
    THEN IF red_at_throws(F_arg_keys, i)
         THEN [thrown |-> TRUE, samples |-> acc]
         ELSE F_jackknife_samples(f, F_arg_keys, i + 1,
                  Append(acc, F(f, args_red_samples(F_arg_keys, i))))
    ELSE [thrown |-> FALSE, samples |-> acc]

\* F called on the reduced samples from the last index down to the first
F_invocations_descending(F_arg_keys, pushed) ==
    <<args_mu(F_arg_keys)>>
        \o [i \in 1..pushed |-> args_red_samples(F_arg_keys, pushed - i)]

\* the arguments of the calls of F that add_function makes once every mean
\* was found: F(args_mu), then one F(args_red_samples) for every push_back
\* of the loop, `pushed` of them, for i = 0, 1, ...
F_invocations(F_arg_keys, pushed) ==
    <<args_mu(F_arg_keys)>>
        \o [i \in 1..pushed |-> args_red_samples(F_arg_keys, i - 1)]

\* what add_function, overload taking the argument keys as a std::vector<K>,
\* does for a key, a function and argument keys: the members and the calls of
\* F as it leaves them, and how it ends
add_function_vector_result(Fkey, f, F_arg_keys) ==
    IF absent(Fkey)
    THEN IF mu_at_throws(F_arg_keys)
         THEN [N_bins |-> N_bins, Xs_mu |-> Xs_mu,
               Xs_reduced_samples |-> Xs_reduced_samples,
               F_calls |-> <<>>, outcome |-> "out_of_range"]
         ELSE LET r == F_jackknife_samples(f, F_arg_keys, 0, <<>>)
              IN  [N_bins |-> N_bins,
                   Xs_mu |-> MapSet(Xs_mu, Fkey, F(f, args_mu(F_arg_keys))),
                   Xs_reduced_samples |->
                       IF r.thrown
                       THEN Xs_reduced_samples
                       ELSE MapSet(Xs_reduced_samples, Fkey, r.samples),
                   F_calls |-> F_invocations(F_arg_keys, Len(r.samples)),
                   outcome |-> IF r.thrown THEN "out_of_range" ELSE "ok"]
    ELSE [N_bins |-> N_bins, Xs_mu |-> Xs_mu,
          Xs_reduced_samples |-> Xs_reduced_samples,
          F_calls |-> <<>>, outcome |-> "noop"]

\* add_function, overload taking the argument keys as a std::vector<K>
add_function_vector(Fkey, f, F_arg_keys) ==
    /\ calls < MaxCalls
    /\ calls' = calls + 1
    /\ UNCHANGED <<T_integral, bin_size>>
    /\ \E e \in {add_function_vector_result(Fkey, f, F_arg_keys)} :
           /\ N_bins' = e.N_bins
           /\ Xs_mu' = e.Xs_mu
           /\ Xs_reduced_samples' = e.Xs_reduced_samples
           /\ F_calls' = e.F_calls
           /\ Called("add_function", Fkey, e.outcome)

\* the fixed-arity form handing the arguments to F in reverse order
add_function_variadic_reversed(Fkey, f, F_arg_keys) ==
    LET rev == [j \in 1..Len(F_arg_keys) |->
                    F_arg_keys[Len(F_arg_keys) + 1 - j]]
    IN  add_function_vector_result(Fkey, f, rev)

\* what add_function, overload taking the argument keys as a parameter
\* pack, does: F_mu is computed first, then assigned to Xs_mu[Fkey]
add_function_variadic_result(Fkey, f, F_arg_keys) ==
    IF absent(Fkey)
    THEN IF mu_at_throws(F_arg_keys)
         THEN [N_bins |-> N_bins, Xs_mu |-> Xs_mu,
               Xs_reduced_samples |-> Xs_reduced_samples,
               F_calls |-> <<>>, outcome |-> "out_of_range"]
         ELSE LET F_mu == F(f, args_mu(F_arg_keys))
                  r == F_jackknife_samples(f, F_arg_keys, 0, <<>>)
              IN  [N_bins |-> N_bins,
                   Xs_mu |-> MapSet(Xs_mu, Fkey, F_mu),
                   Xs_reduced_samples |->
                       IF r.thrown
                       THEN Xs_reduced_samples
                       ELSE MapSet(Xs_reduced_samples, Fkey, r.samples),
                   F_calls |-> F_invocations(F_arg_keys, Len(r.samples)),
                   outcome |-> IF r.thrown THEN "out_of_range" ELSE "ok"]
    ELSE [N_bins |-> N_bins, Xs_mu |-> Xs_mu,
          Xs_reduced_samples |-> Xs_reduced_samples,
          F_calls |-> <<>>, outcome |-> "noop"]

\* add_function, overload taking the argument keys as a parameter pack
add_function_variadic(Fkey, f, F_arg_keys) ==
    /\ calls < MaxCalls
    /\ calls' = calls + 1
    /\ UNCHANGED <<T_integral, bin_size>>
    /\ \E e \in {add_function_variadic_result(Fkey, f, F_arg_keys)} :
           /\ N_bins' = e.N_bins
           /\ Xs_mu' = e.Xs_mu
           /\ Xs_reduced_samples' = e.Xs_reduced_samples
           /\ F_calls' = e.F_calls
           /\ Called("add_function", Fkey, e.outcome)

\* remove erasing the mean alone
remove_mu_only(Xkey) ==
    /\ calls < MaxCalls
    /\ calls' = calls + 1
    /\ F_calls' = <<>>
    /\ UNCHANGED <<T_integral, bin_size, N_bins>>
    /\ Xs_mu' = erase(Xs_mu, Xkey)
    /\ UNCHANGED Xs_reduced_samples
    /\ Called("remove", Xkey, "ok")

\* remove erasing the reduced samples alone
remove_samples_only(Xkey) ==
    /\ calls < MaxCalls
    /\ calls' = calls + 1
    /\ F_calls' = <<>>
    /\ UNCHANGED <<T_integral, bin_size, N_bins, Xs_mu>>
    /\ Xs_reduced_samples' = erase(Xs_reduced_samples, Xkey)
    /\ Called("remove", Xkey, "ok")

remove(Xkey) ==
    /\ calls < MaxCalls
    /\ calls' = calls + 1
    /\ F_calls' = <<>>
    /\ UNCHANGED <<T_integral, bin_size, N_bins>>
    /\ Xs_mu' = erase(Xs_mu, Xkey)
    /\ Xs_reduced_samples' = erase(Xs_reduced_samples, Xkey)
    /\ Called("remove", Xkey, "ok")

----------------------------------------------------------------------------
(* The queries: const member functions, given as what the call returns   *)
(* in the current state, [outcome, ret].                                   *)

keys == DOMAIN Xs_mu

\* mu reading the map with operator[], which yields T() for a missing key
mu_defaulting(Xkey) ==
    IF count(Xs_mu, Xkey) = 0
    THEN [outcome |-> "ok", ret |-> T_zero]
    ELSE [outcome |-> "ok", ret |-> Xs_mu[Xkey]]

mu(Xkey) ==
    IF count(Xs_mu, Xkey) = 0
    THEN [outcome |-> "out_of_range", ret |-> None]
    ELSE [outcome |-> "ok", ret |-> Xs_mu[Xkey]]

samples(Xkey) ==
    IF count(Xs_reduced_samples, Xkey) = 0
    THEN [outcome |-> "out_of_range", ret |-> None]
    ELSE [outcome |-> "ok", ret |-> Xs_reduced_samples[Xkey]]

\* sum over the reduced samples d of (d - m)^2, front to back
RECURSIVE sum_sq_dev(_, _, _)
sum_sq_dev(ds, m, n) ==
    IF n = 0 THEN T_zero
    ELSE T_add(sum_sq_dev(ds, m, n - 1), T_mul(T_sub(ds[n], m), T_sub(ds[n], m)))

\* sqrt((((T) (N_bins - 1)) / ((T) N_bins)) * sum): the results the call can
\* have, given as the value under the root ("NaN" when it is not a number).
\* With N_bins = 0 an integral T divides by zero, which is undefined: the
\* call may crash or return anything; a floating T gets inf * sum.
root_of(sum) ==
    IF N_bins = 0
    THEN IF T_integral
         THEN {[outcome |-> "crash", ret |-> None]}
              \cup {[outcome |-> "ok", ret |-> x] : x \in {T_zero, <<1, 1>>}}
         ELSE {[outcome |-> "ok", ret |-> "NaN"]}
    ELSE {[outcome |-> "ok",
           ret |-> T_mul(T_div(T_from_size(N_bins - 1), T_from_size(N_bins)), sum)]}

sigma(Xkey) ==
    IF count(Xs_reduced_samples, Xkey) = 0
    THEN {[outcome |-> "out_of_range", ret |-> None]}
    ELSE IF Len(Xs_reduced_samples[Xkey]) > 0 /\ count(Xs_mu, Xkey) = 0
    THEN {[outcome |-> "out_of_range", ret |-> None]}
    ELSE root_of(sum_sq_dev(Xs_reduced_samples[Xkey],
                            IF count(Xs_mu, Xkey) = 0 THEN T_zero ELSE Xs_mu[Xkey],
                            Len(Xs_reduced_samples[Xkey])))

\* ret: <<TRUE, mu_X, sigma_X>> or <<FALSE>> (the outputs are left alone)
jackknife(Xkey) ==
    IF count(Xs_reduced_samples, Xkey) # 0 /\ count(Xs_mu, Xkey) # 0
    THEN {[outcome |-> r.outcome,
           ret |-> IF r.outcome = "ok" THEN <<TRUE, Xs_mu[Xkey], r.ret>> ELSE None] :
             r \in root_of(sum_sq_dev(Xs_reduced_samples[Xkey], Xs_mu[Xkey],
                                      Len(Xs_reduced_samples[Xkey])))}
    ELSE {[outcome |-> "ok", ret |-> <<FALSE>>]}

Next ==
    \/ \E k \in Keys, x \in RawInputs : resample(k, x)
    \/ \E k \in Keys, r \in ResampledInputs : add_resampled(k, r.samples, r.mu)
    \/ \E k \in Keys, f \in Funcs, ks \in ArgKeyLists : add_function_vector(k, f, ks)
    \/ \E k \in Keys, f \in Funcs, ks \in ArgKeyLists : add_function_variadic(k, f, ks)
    \/ \E k \in Keys : remove(k)

Spec == Init /\ [][Next]_vars

----------------------------------------------------------------------------
(* Properties *)

Registering == {"resample", "add_resampled"}
Adding == {"resample", "add_resampled", "add_function"}
Failed(l) == l.outcome \in {"runtime_error", "out_of_range"}

\* key j has the same mean and the same reduced samples, or none, as before
SameEntry(j) ==
    /\ (j \in DOMAIN Xs_mu') <=> (j \in DOMAIN Xs_mu)
    /\ (j \in DOMAIN Xs_reduced_samples') <=> (j \in DOMAIN Xs_reduced_samples)
    /\ j \in DOMAIN Xs_mu => Xs_mu'[j] = Xs_mu[j]
    /\ j \in DOMAIN Xs_reduced_samples
          => Xs_reduced_samples'[j] = Xs_reduced_samples[j]

\* the sum of a series of whole-numbered samples
RECURSIVE Total(_)
Total(s) == IF s = <<>> THEN 0 ELSE Head(s)[1] + Total(Tail(s))

\* a / b in T, for whole numbers a and b
Quotient(a, b) == IF T_integral THEN <<TruncDiv(a, b), 1>> ELSE Rat(a, b)

\* C1: once N_bins is set (non-zero) it has the same value in every later
\* state, whatever calls follow and also when every key has been removed.
C1_N_bins_set_once == [][N_bins # 0 => N_bins' = N_bins]_vars

\* a dataset with another bin count is refused by a store that was emptied
C1_witness ==
    /\ N_bins # 0
    /\ DOMAIN Xs_mu = {} /\ DOMAIN Xs_reduced_samples = {}
    /\ last.op \in Registering /\ last.outcome = "runtime_error"

\* C2: in every reachable state the mean map and the map of reduced samples
\* have the same keys.
C2_same_keys == DOMAIN Xs_mu = DOMAIN Xs_reduced_samples

\* C3: in every reachable state every stored series of reduced samples has
\* exactly N_bins entries.
C3_series_length ==
    \A k \in DOMAIN Xs_reduced_samples : Len(Xs_reduced_samples[k]) = N_bins

\* C4: an add_function call that fails leaves both maps and N_bins as they
\* were before the call.
C4_failed_add_function_changes_nothing ==
    [][(last'.op = "add_function" /\ Failed(last')) => UNCHANGED store]_vars

\* C5: a resample or add_resampled call that fails (the bin count differs
\* from N_bins, or is below 2 while N_bins is unset) leaves N_bins and both
\* maps unchanged, and the key it was given has no entry afterwards.
C5_failed_registration_changes_nothing ==
    [][(last'.op \in Registering /\ Failed(last'))
        => /\ last'.outcome = "runtime_error"
           /\ UNCHANGED store
           /\ last'.key \notin DOMAIN Xs_mu'
           /\ last'.key \notin DOMAIN Xs_reduced_samples']_vars

\* a dataset with another bin count was refused by a store holding datasets
C5_witness ==
    /\ last.op \in Registering /\ last.outcome = "runtime_error"
    /\ N_bins # 0
    /\ DOMAIN Xs_mu # {}
    /\ last.key \notin DOMAIN Xs_mu

\* C6: resample, add_resampled and add_function on a key that is present
\* do not fail and leave both maps and N_bins unchanged, whatever the other
\* arguments of the call are.
C6_present_key_is_noop ==
    [][(last'.op \in Adding
        /\ (last'.key \in DOMAIN Xs_mu \/ last'.key \in DOMAIN Xs_reduced_samples))
        => (last'.outcome = "noop" /\ UNCHANGED store)]_vars

\* a call on the only key of the store did nothing
C6_witness ==
    /\ last.op \in Adding /\ last.outcome = "noop"
    /\ DOMAIN Xs_mu = {last.key}
    /\ calls = 2

\* C7: after remove(key), mu, sigma and samples of key fail; the mean and
\* the reduced samples of every other key, and N_bins, are as before; and
\* remove of an absent key changes nothing.
C7_remove ==
    [][\A k \in Keys :
        (last'.op = "remove" /\ last'.key = k)
        => /\ last'.outcome = "ok"
           /\ mu(k)'.outcome = "out_of_range"
           /\ samples(k)'.outcome = "out_of_range"
           /\ \A r \in sigma(k)' : r.outcome = "out_of_range"
           /\ N_bins' = N_bins
           /\ \A j \in Keys \ {k} : SameEntry(j)
           /\ absent(k) => UNCHANGED store]_vars

\* A, from the raw series <<1, 2>>, was removed after B = 1 + A was derived
C7_witness ==
    /\ last.op = "remove" /\ last.key = "A"
    /\ DOMAIN Xs_mu = {"B"} /\ DOMAIN Xs_reduced_samples = {"B"}
    /\ ~T_integral
    /\ Xs_mu["B"] = <<5, 2>>
    /\ Xs_reduced_samples["B"] = << <<3, 1>>, <<2, 1>> >>

\* C8: for a raw series of length L with bin_size dividing L into n > 1
\* bins, a successful resample on an absent key stores n reduced samples and
\* the mean sum / L, and reduced sample i (from 0) is
\* (sum - sum of the samples at [i*bin_size, (i+1)*bin_size)) / (L - bin_size),
\* with the division of T.
C8_resample_values ==
    [][(last'.op = "resample" /\ last'.outcome = "ok") =>
       \A k \in Keys, x \in RawInputs :
        (/\ last'.key = k
         /\ Len(x) % bin_size = 0
         /\ resample(k, x))
        => LET L == Len(x)
               n == L \div bin_size
           IN  /\ n > 1
               /\ N_bins' = n
               /\ Len(Xs_reduced_samples'[k]) = n
               /\ Xs_mu'[k] = Quotient(Total(x), L)
               /\ \A i \in 0..(n - 1) :
                    Xs_reduced_samples'[k][i + 1] =
                        Quotient(Total(x) - Total(SubSeq(x, i * bin_size + 1,
                                                         (i + 1) * bin_size)),
                                 L - bin_size)]_vars

\* the raw series <<1, 2, 3, 4, 5, 6>> with bin_size 1: N_bins = 6, reduced
\* sample 0 is 20/5 and reduced sample 5 is 15/5
C8_witness ==
    /\ last = [op |-> "resample", key |-> "A", outcome |-> "ok"]
    /\ bin_size = 1 /\ ~T_integral
    /\ N_bins = 6
    /\ Xs_mu["A"] = <<7, 2>>
    /\ Len(Xs_reduced_samples["A"]) = 6
    /\ Xs_reduced_samples["A"][1] = <<4, 1>>
    /\ Xs_reduced_samples["A"][6] = <<3, 1>>

\* C9: a successful add_function (either overload) on an absent key stores
\* the mean F(means of the argument keys, in order) and N_bins reduced
\* samples, the i-th being F(i-th reduced samples of the argument keys, in
\* order); for F = a + b the mean is mu(A) + mu(B) and reduced sample i is
\* samples(A)[i] + samples(B)[i]; the entries of all other keys, the
\* argument keys among them, are unchanged.
C9_add_function_values ==
    [](\A k \in Keys, f \in Funcs, ks \in ArgKeyLists :
        \A e \in {add_function_vector_result(k, f, ks),
                  add_function_variadic_result(k, f, ks)} :
          e.outcome = "ok"
          => /\ absent(k)
             /\ e.Xs_mu[k] = F(f, [j \in 1..Len(ks) |-> Xs_mu[ks[j]]])
             /\ Len(e.Xs_reduced_samples[k]) = N_bins
             /\ \A i \in 1..N_bins :
                  e.Xs_reduced_samples[k][i] =
                      F(f, [j \in 1..Len(ks) |-> Xs_reduced_samples[ks[j]][i]])
             /\ (f = "sum" /\ Len(ks) = 2)
                  => /\ e.Xs_mu[k] = T_add(Xs_mu[ks[1]], Xs_mu[ks[2]])
                     /\ \A i \in 1..N_bins :
                          e.Xs_reduced_samples[k][i] =
                              T_add(Xs_reduced_samples[ks[1]][i],
                                    Xs_reduced_samples[ks[2]][i])
             /\ (f = "wsum" /\ Len(ks) = 2)
                  => e.Xs_mu[k] = T_add(T_add(<<1, 1>>, Xs_mu[ks[1]]),
                                        T_add(Xs_mu[ks[2]], Xs_mu[ks[2]]))
             /\ DOMAIN e.Xs_mu = DOMAIN Xs_mu \cup {k}
             /\ DOMAIN e.Xs_reduced_samples = DOMAIN Xs_reduced_samples \cup {k}
             /\ \A j \in DOMAIN Xs_mu : e.Xs_mu[j] = Xs_mu[j]
             /\ \A j \in DOMAIN Xs_reduced_samples :
                  e.Xs_reduced_samples[j] = Xs_reduced_samples[j]
             /\ e.N_bins = N_bins)

\* C = A + B over A from the raw series <<1, 2>> and B supplied resampled
C9_witness ==
    /\ last = [op |-> "add_function", key |-> "C", outcome |-> "ok"]
    /\ bin_size = 1 /\ ~T_integral
    /\ DOMAIN Xs_mu = {"A", "B", "C"}
    /\ Xs_mu["A"] = <<3, 2>> /\ Xs_mu["B"] = <<5, 1>> /\ Xs_mu["C"] = <<13, 2>>
    /\ Xs_reduced_samples["A"] = << <<2, 1>>, <<1, 1>> >>
    /\ Xs_reduced_samples["B"] = << <<4, 1>>, <<6, 1>> >>
    /\ Xs_reduced_samples["C"] = << <<6, 1>>, <<7, 1>> >>

\* C10: resample on an absent key, with num_bins = Len(Xsamples) div
\* bin_size, succeeds exactly when N_bins is unset and num_bins > 1 (N_bins
\* becomes num_bins) or N_bins is set and num_bins = N_bins; otherwise it
\* throws the validation error.
C10_resample_outcome ==
    [][last'.op = "resample" =>
       \A k \in Keys, x \in RawInputs :
        (/\ last'.key = k
         /\ absent(k)
         /\ resample(k, x))
        => LET num_bins == Len(x) \div bin_size
           IN  /\ (last'.outcome = "ok")
                    <=> \/ N_bins = 0 /\ num_bins > 1
                        \/ N_bins # 0 /\ num_bins = N_bins
               /\ last'.outcome = "ok"
                    => /\ N_bins' = num_bins
                       /\ k \in DOMAIN Xs_mu' /\ k \in DOMAIN Xs_reduced_samples'
               /\ last'.outcome # "ok" => last'.outcome = "runtime_error"]_vars

\* six or seven raw samples with bin_size 2 were taken as three bins by a
\* store that already had three
C10_witness ==
    /\ last = [op |-> "resample", key |-> "B", outcome |-> "ok"]
    /\ bin_size = 2 /\ N_bins = 3
    /\ DOMAIN Xs_mu = {"A", "B"}
    /\ calls = 2

\* C11: add_resampled on an absent key compares the number of samples
\* given, not divided by bin_size, with N_bins: it succeeds exactly when
\* N_bins is unset and there are more than one (N_bins becomes their number)
\* or N_bins is set and equals their number; after a success samples(key) is
\* the series given and mu(key) the mean given.
C11_add_resampled ==
    [][last'.op = "add_resampled" =>
       \A k \in Keys, r \in ResampledInputs :
        (/\ last'.key = k
         /\ absent(k)
         /\ add_resampled(k, r.samples, r.mu))
        => LET n == Len(r.samples)
           IN  /\ (last'.outcome = "ok")
                    <=> \/ N_bins = 0 /\ n > 1
                        \/ N_bins # 0 /\ n = N_bins
               /\ last'.outcome = "ok"
                    => /\ N_bins' = n
                       /\ samples(k)' = [outcome |-> "ok", ret |-> r.samples]
                       /\ mu(k)' = [outcome |-> "ok", ret |-> r.mu]
               /\ last'.outcome # "ok"
                    => (last'.outcome = "runtime_error" /\ UNCHANGED store)]_vars

\* three reduced samples were taken as three bins by a store with bin_size 2
C11_witness ==
    /\ last = [op |-> "add_resampled", key |-> "A", outcome |-> "ok"]
    /\ bin_size = 2
    /\ N_bins = 3
    /\ samples("A").ret = << <<3, 1>>, <<5, 1>>, <<-7, 1>> >>
    /\ mu("A").ret = <<5, 1>>

\* C12: jackknife(key) never fails: for every key of keys() it returns true
\* with the outputs equal to mu(key) and sigma(key), for every other key it
\* returns false, so it returns true exactly for the keys mu succeeds on.
C12_jackknife_total ==
    \A k \in Keys : \A j \in jackknife(k) :
        /\ j.outcome = "ok"
        /\ j.ret[1] <=> k \in keys
        /\ j.ret[1] <=> mu(k).outcome = "ok"
        /\ j.ret[1] => /\ j.ret[2] = mu(k).ret
                       /\ \E s \in sigma(k) : s.outcome = "ok" /\ s.ret = j.ret[3]

\* every key has a mean and N_bins reduced samples, N_bins being set
Sound ==
    /\ N_bins # 0
    /\ DOMAIN Xs_mu = DOMAIN Xs_reduced_samples
    /\ \A k \in DOMAIN Xs_reduced_samples : Len(Xs_reduced_samples[k]) = N_bins

\* what a T holds of the square root of x >= 0: an integral T its whole
\* part, a floating T the root itself (given by x)
Root(x) ==
    IF T_integral
    THEN CHOOSE r \in 0..Abs(x[1]) :
            r * r * x[2] <= x[1] /\ x[1] < (r + 1) * (r + 1) * x[2]
    ELSE x

\* C13: for every key of a store in which every key has its mean and its
\* N_bins reduced samples, and for an integral T as for a floating one,
\* sigma(key) is the square root of (N_bins - 1) / N_bins, the exact ratio,
\* times the sum of the squared deviations of the reduced samples from the
\* mean.
C13_sigma_formula ==
    Sound =>
      \A k \in keys : \A s \in sigma(k) :
        /\ s.outcome = "ok"
        /\ Root(s.ret) =
             LET S == sum_sq_dev(Xs_reduced_samples[k], Xs_mu[k], N_bins)
             IN  Root(Rat((N_bins - 1) * S[1], N_bins * S[2]))

\* C14: in every reachable store, for every result key, function and list
\* of argument keys, the two forms of add_function have the same outcome:
\* both succeed, both are ignored or both fail the same way, they call F on
\* the same arguments and leave the same means, the same reduced samples and
\* the same N_bins.
C14_add_function_forms_agree ==
    \A k \in Keys, f \in Funcs, ks \in ArgKeyLists :
        add_function_vector_result(k, f, ks) = add_function_variadic_result(k, f, ks)

\* with a resampled A and a given B stored, both forms derive C = wsum(A, B),
\* which depends on the order of the arguments
C14_witness ==
    /\ ~T_integral
    /\ Xs_mu = [A |-> <<3, 2>>, B |-> <<5, 1>>]
    /\ DOMAIN Xs_reduced_samples = {"A", "B"}
    /\ Xs_reduced_samples["A"] = << <<2, 1>>, <<1, 1>> >>
    /\ Xs_reduced_samples["B"] = << <<4, 1>>, <<6, 1>> >>
    /\ LET e == add_function_variadic_result("C", "wsum", <<"A", "B">>)
       IN  /\ e = add_function_vector_result("C", "wsum", <<"A", "B">>)
           /\ e.outcome = "ok"
           /\ e.Xs_mu["C"] = <<25, 2>>
           /\ e.Xs_reduced_samples["C"] = << <<11, 1>>, <<14, 1>> >>

\* C15: a key that is not in the store is never looked up successfully:
\* in every state mu, sigma and samples fail with out_of_range for every
\* such key, and add_function, in either form, for a result key not in the
\* store with at least one argument key not in the store fails with
\* out_of_range, without a call of F, and leaves the store, so the set of
\* stored keys, as it was.
C15_absent_key_lookup_fails ==
    [](/\ \A k \in Keys :
            absent(k) => /\ mu(k).outcome = "out_of_range"
                         /\ samples(k).outcome = "out_of_range"
                         /\ \A s \in sigma(k) : s.outcome = "out_of_range"
       /\ \A k \in Keys, f \in Funcs, ks \in ArgKeyLists :
            (absent(k) /\ \E j \in 1..Len(ks) : absent(ks[j]))
            => \A e \in {add_function_vector_result(k, f, ks),
                         add_function_variadic_result(k, f, ks)} :
                 /\ e.outcome = "out_of_range"
                 /\ DOMAIN e.Xs_mu = keys
                 /\ DOMAIN e.Xs_reduced_samples = DOMAIN Xs_reduced_samples
                 /\ <<e.N_bins, e.Xs_mu, e.Xs_reduced_samples>> = store
                 /\ e.F_calls = <<>>)

\* with A alone in the store, add_function for B failed on an argument key
C15_witness ==
    /\ last = [op |-> "add_function", key |-> "B", outcome |-> "out_of_range"]
    /\ N_bins = 3
    /\ keys = {"A"}
    /\ Len(samples("A").ret) = 3
    /\ mu("B").outcome = "out_of_range"
    /\ mu("C").outcome = "out_of_range"

\* C16: for a raw series of length L that bin_size does not divide, a
\* successful resample on an absent key stores n = L div bin_size reduced
\* samples and the mean (sum of all L samples) / L; reduced sample i is the
\* sum of every sample outside bin i, the L mod bin_size samples after the
\* last bin included, divided by L - bin_size.
C16_resample_remainder ==
    [][(last'.op = "resample" /\ last'.outcome = "ok") =>
       \A k \in Keys, x \in RawInputs :
        (/\ last'.key = k
         /\ Len(x) % bin_size # 0
         /\ resample(k, x))
        => LET L == Len(x)
               n == L \div bin_size
               trailing == SubSeq(x, n * bin_size + 1, L)
           IN  /\ N_bins' = n
               /\ Len(trailing) = L % bin_size
               /\ Len(samples(k)'.ret) = n
               /\ mu(k)'.ret = Quotient(Total(SubSeq(x, 1, n * bin_size))
                                          + Total(trailing), L)
               /\ \A i \in 0..(n - 1) :
                    samples(k)'.ret[i + 1] =
                        Quotient(Total(SubSeq(x, 1, i * bin_size))
                                   + Total(SubSeq(x, (i + 1) * bin_size + 1,
                                                  n * bin_size))
                                   + Total(trailing),
                                 L - bin_size)]_vars

\* the raw series <<1, 2, 3, 4, 5>> with bin_size 2: two bins, the sample 5
\* is in the mean 15/5 and in both reduced samples, 12/3 and 8/3
C16_witness ==
    /\ last = [op |-> "resample", key |-> "A", outcome |-> "ok"]
    /\ bin_size = 2 /\ ~T_integral
    /\ N_bins = 2
    /\ mu("A").ret = <<3, 1>>
    /\ samples("A").ret = << <<4, 1>>, <<8, 3>> >>

\* C17: a successful add_function on an absent key calls F exactly
\* N_bins + 1 times, by either form: first on the means of the argument
\* keys, then once for every index i = 0 .. N_bins - 1 in increasing order
\* on the i-th reduced samples of the argument keys.
C17_F_called_N_bins_plus_one_times ==
    [](\A k \in Keys, f \in Funcs, ks \in ArgKeyLists :
        \A e \in {add_function_vector_result(k, f, ks),
                  add_function_variadic_result(k, f, ks)} :
          e.outcome = "ok"
          => /\ Len(e.F_calls) = N_bins + 1
             /\ e.F_calls[1] = [j \in 1..Len(ks) |-> mu(ks[j]).ret]
             /\ \A i \in 0..(N_bins - 1) :
                  e.F_calls[i + 2] = [j \in 1..Len(ks) |-> samples(ks[j]).ret[i + 1]])

\* wsum(A, B) was called on the means <<3/2, 5>>, then on the reduced
\* samples <<2, 4>> and <<1, 6>>
C17_witness ==
    /\ last = [op |-> "add_function", key |-> "C", outcome |-> "ok"]
    /\ N_bins = 2
    /\ F_calls = << << <<3, 2>>, <<5, 1>> >>,
                    << <<2, 1>>, <<4, 1>> >>,
                    << <<1, 1>>, <<6, 1>> >> >>

\* C18: in every reachable state, while N_bins is 0 (unset) the store holds
\* no key: no mean and no reduced samples, also after add_function with an
\* empty list of argument keys.
C18_unset_N_bins_empty_store ==
    N_bins = 0 => (DOMAIN Xs_mu = {} /\ DOMAIN Xs_reduced_samples = {})

\* C19: a raw series that init_or_verify_N accepts is resampled without
\* undefined behaviour: every read Xsamples[i] has i < Xsamples.size(), the
\* largest index read being N_bins * bin_size - 1, and the divisor
\* Xsamples.size() - bin_size of the reduced samples is at least 1.
C19_resample_in_bounds ==
    [][last'.op = "resample" =>
       \A k \in Keys, x \in RawInputs :
        (/\ last'.key = k
         /\ absent(k)
         /\ ~init_or_verify_N(x, FALSE).thrown
         /\ resample(k, x))
        => /\ \A i \in read_indices(N_bins') : i < Len(x)
           /\ N_bins' * bin_size - 1 \in read_indices(N_bins')
           /\ \A i \in read_indices(N_bins') : i <= N_bins' * bin_size - 1
           /\ Len(x) - bin_size >= 1
           /\ last'.outcome = "ok"]_vars

\* <<1, 2, 3, 4, 5>> with bin_size 2 was resampled into the two bins that
\* N_bins asked for: the reads went up to index 3 of 5, the divisor was 3
C19_witness ==
    /\ last = [op |-> "resample", key |-> "B", outcome |-> "ok"]
    /\ bin_size = 2
    /\ N_bins = 2
    /\ read_indices(N_bins) = 0..3
    /\ T_integral
    /\ keys = {"A", "B"}
    /\ mu("B").ret = <<3, 1>>
    /\ samples("B").ret = << <<4, 1>>, <<2, 1>> >>

\* C20: remove keeps N_bins, and a resample or add_resampled of the key that
\* the call before removed is never ignored: its bin count is verified
\* against N_bins as remove left it, also when the store is empty by now; it
\* fails with runtime_error, changing nothing, when the count does not fit,
\* and otherwise mu and samples of the key return the new dataset.
C20_register_after_remove ==
    [][\A k \in Keys :
        /\ (last'.op = "remove" /\ last'.key = k) => N_bins' = N_bins
        /\ (/\ last.op = "remove" /\ last.key = k
            /\ last'.op \in Registering /\ last'.key = k)
           => /\ last'.outcome \in {"ok", "runtime_error"}
              /\ last'.outcome = "runtime_error" => UNCHANGED store
              /\ \A x \in RawInputs :
                   resample(k, x)
                   => LET n == Len(x) \div bin_size
                      IN  /\ (last'.outcome = "ok")
                                <=> (IF N_bins = 0 THEN n > 1 ELSE n = N_bins)
                          /\ last'.outcome = "ok"
                               => /\ N_bins' = n
                                  /\ mu(k)'.ret = Quotient(Total(x), Len(x))
                                  /\ Len(samples(k)'.ret) = n
                                  /\ \A i \in 0..(n - 1) :
                                       samples(k)'.ret[i + 1] =
                                         Quotient(Total(x)
                                                    - Total(SubSeq(x, i * bin_size + 1,
                                                                   (i + 1) * bin_size)),
                                                  Len(x) - bin_size)
              /\ \A r \in ResampledInputs :
                   add_resampled(k, r.samples, r.mu)
                   => LET n == Len(r.samples)
                      IN  /\ (last'.outcome = "ok")
                                <=> (IF N_bins = 0 THEN n > 1 ELSE n = N_bins)
                          /\ last'.outcome = "ok"
                               => /\ N_bins' = n
                                  /\ mu(k)'.ret = r.mu
                                  /\ samples(k)'.ret = r.samples]_vars

\* A was removed and then resampled from <<1, 2, 3, 4>> in a store with
\* bin_size 1 whose N_bins is 4
C20_witness ==
    /\ removed = <<"before", "A">>
    /\ last = [op |-> "resample", key |-> "A", outcome |-> "ok"]
    /\ bin_size = 1 /\ ~T_integral
    /\ N_bins = 4
    /\ keys = {"A"}
    /\ mu("A").ret = <<5, 2>>
    /\ samples("A").ret = << <<3, 1>>, <<8, 3>>, <<7, 3>>, <<2, 1>> >>

====
